---- MODULE Spec2Model ----
(***************************************************************************)
(* State machine of the stored-procedure explorer component                *)
(* (ProcedureExplorer, src/frontend/README.md lines 41-753): the catalog   *)
(* loader, the detail cache, the draft store, the selection controller and *)
(* the execution orchestrator, with the network requests they leave in     *)
(* flight.  One action is one event handler, or one continuation of an     *)
(* async function run when its response arrives, together with the         *)
(* re-render and the effects React flushes before the next event.          *)
(***************************************************************************)
EXTENDS Integers, Sequences, FiniteSets, Bags, TLC

\* Bounds of the model: detail and execute requests that may be in flight at
\* once, and the length of the list the remote service returns.
MaxInFlight == 2
MaxListLength == 3
MaxSearchLength == 3
MaxSockets == 4

VARIABLES
  procedures,         \* useState<ProcedureSummary[]>([])
  searchTerm,         \* useState("")
  isLoadingList,
  listError,
  selectedSummary,
  selectedKey,
  detailsCache,       \* Record<string, ProcedureDetails>
  detailsLoading,
  detailsError,
  parameterValues,    \* the active draft
  parameterDraftsRef, \* the draft store (a ref, mutated in place)
  isExecuting,
  executionError,
  executionResult,
  listReqs,           \* number of GET /api/procedures awaited
  detailReqs,         \* bag of fetchProcedureDetails calls awaiting their response
  execReqs,           \* bag of executeProcedure calls awaiting their response
  \* History variables: they record what happened and decide nothing.
  mode,               \* which observer runs: "session", "steps", "trip", ...
  lastFetched,        \* the array of the last successful list response
  last,               \* the last step: did it start an execution, over shown output
  trip,               \* progress of a type / leave / come back scenario
  \* useWebSocket (use-websocket.ts)
  isConnected,        \* useState(false)
  lastMessage,        \* useState<any>(null)
  wsRef,              \* useRef<WebSocket | null>(null): the index of a socket
  sockets,            \* readyState of every WebSocket created, in creation order
  timers,             \* pending setTimeout(connectWebSocket, 3000) calls
  mounted             \* the effect has run and its cleanup has not

explorerVars ==
  <<procedures, searchTerm, isLoadingList, listError, selectedSummary, selectedKey,
    detailsCache, detailsLoading, detailsError, parameterValues,
    parameterDraftsRef, isExecuting, executionError, executionResult,
    listReqs, detailReqs, execReqs, mode, lastFetched, last, trip>>

hookVars == <<isConnected, lastMessage, wsRef, sockets, timers, mounted>>

vars == <<explorerVars, hookVars>>

listVars == <<procedures, isLoadingList, listError, listReqs>>
executionVars == <<isExecuting, executionError, executionResult, execReqs>>

----------------------------------------------------------------------------
\* null / a value: <<>> is null, <<x>> is the value x.
None == <<>>
Some(x) == <<x>>

\* JavaScript objects used as string-keyed maps.
EmptyMap == <<>>
Put(map, k, v) == [x \in DOMAIN map \cup {k} |-> IF x = k THEN v ELSE map[x]]
Entries(map) == {<<k, map[k]>> : k \in DOMAIN map}
FromEntries(entries) ==
  [k \in {e[1] : e \in entries} |-> (CHOOSE e \in entries : e[1] = k)[2]]

Range(seq) == {seq[i] : i \in 1..Len(seq)}

----------------------------------------------------------------------------
makeKey(schema, name) == schema \o "." \o name

QUICK_START_PROCEDURE ==
  [schema |-> "sys", name |-> "sp_help", has_parameters |-> FALSE,
   definition_snippet |->
     "Returns metadata about database objects in the current database."]

QUICK_START_KEY ==
  makeKey(QUICK_START_PROCEDURE.schema, QUICK_START_PROCEDURE.name)

KeyOf(summary) == makeKey(summary.schema, summary.name)

----------------------------------------------------------------------------
\* The remote service, as far as the component sees it.

\* Summaries the list endpoint may return; it knows sys.sp_help too.
ServerSummaries ==
  { [schema |-> "sys", name |-> "sp_help", has_parameters |-> TRUE],
    [schema |-> "dbo", name |-> "a", has_parameters |-> TRUE],
    [schema |-> "dbo", name |-> "b", has_parameters |-> TRUE] }

\* The list the service returns during a browsing session.
ServerList ==
  << [schema |-> "sys", name |-> "sp_help", has_parameters |-> TRUE],
     [schema |-> "dbo", name |-> "a", has_parameters |-> TRUE] >>

RECURSIVE SeqsUpTo(_, _)
SeqsUpTo(S, n) ==
  IF n = 0 THEN {<<>>}
  ELSE LET shorter == SeqsUpTo(S, n - 1)
       IN shorter \cup {Append(s, x) : s \in {t \in shorter : Len(t) = n - 1}, x \in S}

ListResponses == SeqsUpTo(ServerSummaries, MaxListLength)

Parameter(short, required) == [short_name |-> short, is_required |-> required]

\* Parameter lists the detail endpoint may return for a procedure.
ServerParameters(summary) ==
  IF summary.name = "sp_help" THEN {<<>>, <<Parameter("p", TRUE)>>}
  ELSE IF summary.name = "a" THEN {<<Parameter("p", TRUE), Parameter("q", FALSE)>>}
  ELSE {<<Parameter("q", FALSE)>>}

\* Bodies of non-success responses, and messages of transport exceptions.
ErrorBodies == {EmptyMap}
ThrownMessages == {}

Field(body, f) == IF f \in DOMAIN body THEN body[f] ELSE ""

\* data?.detail || data?.error || generic
ErrorMessage(body, generic) ==
  IF Field(body, "detail") # "" THEN body["detail"]
  ELSE IF Field(body, "error") # "" THEN body["error"]
  ELSE generic

\* The messages a failed request can surface.
FailureMessages(generic) ==
  {ErrorMessage(body, generic) : body \in ErrorBodies} \cup ThrownMessages

ListGenericMessage == "Unable to load stored procedures from the server."
DetailGenericMessage(summary) ==
  "Unable to load stored procedure " \o summary.schema \o "." \o summary.name \o "."
ExecuteGenericMessage(summary) ==
  "Stored procedure " \o summary.schema \o "." \o summary.name \o " failed to execute."
ValidationMessage ==
  "Please provide values for all required parameters before running this procedure."

\* What the user types into a field while `key` is selected.
TypedValues(key) == {"", "v@" \o key}
ShortNames == {"p", "q"}

----------------------------------------------------------------------------
\* useWebSocket before its effect has run.
HookIdle ==
  /\ isConnected = FALSE
  /\ lastMessage = None
  /\ wsRef = None
  /\ sockets = <<>>
  /\ timers = 0
  /\ mounted = FALSE

InitState ==
  /\ HookIdle
  /\ procedures = <<>>
  /\ searchTerm = ""
  /\ isLoadingList = TRUE          \* the mount effect has called fetchProcedures
  /\ listError = None
  /\ listReqs = 1
  /\ selectedSummary = None
  /\ selectedKey = None
  /\ detailsCache = EmptyMap
  /\ detailsLoading = FALSE
  /\ detailsError = None
  /\ parameterValues = EmptyMap
  /\ parameterDraftsRef = EmptyMap
  /\ isExecuting = FALSE
  /\ executionError = None
  /\ executionResult = None
  /\ detailReqs = EmptyBag
  /\ execReqs = EmptyBag
  /\ lastFetched = None
  /\ last = [started |-> FALSE, overOutput |-> FALSE, selectOverOutput |-> FALSE,
             retry |-> FALSE, rejectOverResult |-> FALSE]
  /\ trip = None

Init == InitState /\ mode = "session"
InitSteps == InitState /\ mode = "steps"
InitTrip == InitState /\ mode = "trip"
InitReset == InitState /\ mode = "reset"

----------------------------------------------------------------------------
\* fetchProcedures up to its await.
fetchProcedures ==
  /\ isLoadingList' = TRUE
  /\ listError' = None
  /\ listReqs' = listReqs + 1
  /\ UNCHANGED procedures

handleRefresh ==
  /\ ~isLoadingList                \* the refresh button is disabled while loading
  /\ fetchProcedures
  /\ UNCHANGED <<selectedSummary, selectedKey, detailsCache, detailsLoading,
                 detailsError, parameterValues, parameterDraftsRef,
                 detailReqs>>
  /\ UNCHANGED executionVars
  /\ UNCHANGED searchTerm

\* Faulty variant: the server's entries are not filtered.
WithQuickStartUnfiltered(fetched) == <<QUICK_START_PROCEDURE>> \o fetched

\* fetched.filter(...) and the sentinel prepended.
WithQuickStart(fetched) ==
  <<QUICK_START_PROCEDURE>> \o
    SelectSeq(fetched, LAMBDA procedure : KeyOf(procedure) # QUICK_START_KEY)

\* Faulty variant: a fresh catalog drops the cached details.
fetchProceduresOkDropsCache(data) ==
  /\ listReqs > 0
  /\ listReqs' = listReqs - 1
  /\ procedures' = WithQuickStart(data)
  /\ isLoadingList' = FALSE
  /\ detailsCache' = EmptyMap
  /\ UNCHANGED listError
  /\ UNCHANGED <<selectedSummary, selectedKey, detailsLoading,
                 detailsError, parameterValues, parameterDraftsRef,
                 detailReqs>>
  /\ UNCHANGED executionVars
  /\ UNCHANGED searchTerm

\* The list response arrives with a success status; data is the array, or
\* <<>> when the body is no array.
fetchProceduresOk(data) ==
  /\ listReqs > 0
  /\ listReqs' = listReqs - 1
  /\ procedures' = WithQuickStart(data)
  /\ isLoadingList' = FALSE
  /\ UNCHANGED listError
  /\ UNCHANGED <<selectedSummary, selectedKey, detailsCache, detailsLoading,
                 detailsError, parameterValues, parameterDraftsRef,
                 detailReqs>>
  /\ UNCHANGED executionVars
  /\ UNCHANGED searchTerm

fetchProceduresFail(message) ==
  /\ listReqs > 0
  /\ listReqs' = listReqs - 1
  /\ listError' = Some(message)
  /\ isLoadingList' = FALSE
  /\ UNCHANGED procedures
  /\ UNCHANGED <<selectedSummary, selectedKey, detailsCache, detailsLoading,
                 detailsError, parameterValues, parameterDraftsRef,
                 detailReqs>>
  /\ UNCHANGED executionVars
  /\ UNCHANGED searchTerm

----------------------------------------------------------------------------
\* Faulty variant: nothing is seeded.
InitialValuesNone(details) == EmptyMap

\* details.parameters.reduce(acc[param.short_name] = "")
InitialValues(details) ==
  [k \in {details.parameters[i].short_name : i \in 1..Len(details.parameters)} |-> ""]

\* Faulty variant: without a stored draft the active draft is left as it is until the
\* details are there.
DraftRestoreEffectKeepsActive(key, drafts, cache) ==
  IF key = None THEN EmptyMap
  ELSE IF key[1] \in DOMAIN drafts THEN drafts[key[1]]
  ELSE IF key[1] \notin DOMAIN cache THEN parameterValues
  ELSE InitialValues(cache[key[1]])

\* The draft-restore effect, run when selectedKey or detailsCache changed.
DraftRestoreEffect(key, drafts, cache) ==
  IF key = None THEN EmptyMap
  ELSE IF key[1] \in DOMAIN drafts THEN drafts[key[1]]
  ELSE IF key[1] \notin DOMAIN cache THEN EmptyMap
  ELSE InitialValues(cache[key[1]])

hasRequired(details) ==
  \E i \in 1..Len(details.parameters) : details.parameters[i].is_required

\* Faulty variant: nothing is filtered out.
filteredParametersAll(parameters) == parameters

\* Object.entries(parameters).filter(non-empty) back into an object.
filteredParameters(parameters) ==
  FromEntries({e \in Entries(parameters) : e[2] # ""})

\* The step leaves no more requests in flight than the model follows.
InFlightBound ==
  BagCardinality(detailReqs') + BagCardinality(execReqs') <= MaxInFlight

\* Faulty variant: the shown result and error are cleared only when the response arrives.
executeProcedureKeepsOutput(summary, parameters) ==
  /\ isExecuting' = TRUE
  /\ UNCHANGED <<executionError, executionResult>>
  /\ execReqs' = execReqs (+) SetToBag({[summary |-> summary,
                                         body |-> filteredParameters(parameters)]})

\* executeProcedure up to its await.
executeProcedure(summary, parameters) ==
  /\ isExecuting' = TRUE
  /\ executionError' = None
  /\ executionResult' = None
  /\ execReqs' = execReqs (+) SetToBag({[summary |-> summary,
                                         body |-> filteredParameters(parameters)]})

\* Faulty variant: a displayed detail error stays until the response arrives.
fetchProcedureDetailsKeepsError(summary, autoExecute) ==
  /\ detailsLoading' = TRUE
  /\ UNCHANGED detailsError
  /\ detailReqs' = detailReqs (+) SetToBag({[summary |-> summary,
                                             autoExecute |-> autoExecute]})

\* fetchProcedureDetails up to its await.
fetchProcedureDetails(summary, autoExecute) ==
  /\ detailsLoading' = TRUE
  /\ detailsError' = None
  /\ detailReqs' = detailReqs (+) SetToBag({[summary |-> summary,
                                             autoExecute |-> autoExecute]})

\* Faulty variant: required parameters do not hold the execution back.
autoExecuteStepAlways(summary, autoExecute, details) ==
  IF autoExecute
  THEN executeProcedure(summary, EmptyMap)
  ELSE UNCHANGED executionVars

\* options.autoExecute with the resolved details.
autoExecuteStep(summary, autoExecute, details) ==
  IF autoExecute /\ ~hasRequired(details)
  THEN executeProcedure(summary, EmptyMap)
  ELSE UNCHANGED executionVars

\* Faulty variant: the outgoing draft is not saved.
outgoingDraftDropped == parameterDraftsRef

\* The draft store after handleSelect has saved the outgoing draft.
outgoingDraftSaved ==
  IF selectedSummary # None /\ selectedKey # None
  THEN Put(parameterDraftsRef, selectedKey[1], parameterValues)
  ELSE parameterDraftsRef

\* handleSelect up to its first await (or to its end on a cache hit),
\* followed by the draft-restore effect when selectedKey changed.
handleSelect(summary, autoExecute) ==
  LET key == makeKey(summary.schema, summary.name)
      drafts == outgoingDraftSaved
  IN /\ parameterDraftsRef' = drafts
     /\ selectedSummary' = Some(summary)
     /\ selectedKey' = Some(key)
     /\ IF key \in DOMAIN detailsCache
        THEN /\ detailsError' = None
             /\ UNCHANGED <<detailsLoading, detailReqs>>
             /\ IF autoExecute /\ ~hasRequired(detailsCache[key])
                THEN executeProcedure(summary, EmptyMap)
                ELSE /\ executionError' = None
                     /\ executionResult' = None
                     /\ UNCHANGED <<isExecuting, execReqs>>
        ELSE /\ fetchProcedureDetails(summary, autoExecute)
             /\ executionError' = None
             /\ executionResult' = None
             /\ UNCHANGED <<isExecuting, execReqs>>
     /\ parameterValues' = IF Some(key) # selectedKey
                           THEN DraftRestoreEffect(Some(key), drafts, detailsCache)
                           ELSE parameterValues
     /\ UNCHANGED detailsCache
     /\ UNCHANGED listVars
     /\ InFlightBound

----------------------------------------------------------------------------
\* String.prototype.toLowerCase, trim and includes.
UpperCase == "ABCDEFGHIJKLMNOPQRSTUVWXYZ"
LowerCase == "abcdefghijklmnopqrstuvwxyz"
WhiteSpace == {" ", "\t", "\n", "\r"}

LowerOf ==
  FromEntries({<<SubSeq(UpperCase, i, i), SubSeq(LowerCase, i, i)>> :
                 i \in 1..Len(UpperCase)})

toLowerCaseChar(c) == IF c \in DOMAIN LowerOf THEN LowerOf[c] ELSE c

RECURSIVE toLowerCase(_)
toLowerCase(s) ==
  IF s = "" THEN "" ELSE toLowerCaseChar(SubSeq(s, 1, 1)) \o toLowerCase(Tail(s))

RECURSIVE trimStart(_)
trimStart(s) ==
  IF s # "" /\ SubSeq(s, 1, 1) \in WhiteSpace THEN trimStart(Tail(s)) ELSE s

RECURSIVE trimEnd(_)
trimEnd(s) ==
  IF s # "" /\ SubSeq(s, Len(s), Len(s)) \in WhiteSpace
  THEN trimEnd(SubSeq(s, 1, Len(s) - 1))
  ELSE s

trim(s) == trimEnd(trimStart(s))

includes(s, part) ==
  \E i \in 1..(Len(s) - Len(part) + 1) : SubSeq(s, i, i + Len(part) - 1) = part

\* procedure.definition_snippet?.toLowerCase() ?? ""
snippetOf(procedure) ==
  IF "definition_snippet" \in DOMAIN procedure
  THEN toLowerCase(procedure.definition_snippet)
  ELSE ""

\* Faulty variant: only the identifier is searched.
matchesIdentifierOnly(procedure, query) ==
  \E identifier \in {toLowerCase(procedure.schema \o "." \o procedure.name)} :
    includes(identifier, query)

\* The predicate of the filter.
matches(procedure, query) ==
  \E identifier \in {toLowerCase(procedure.schema \o "." \o procedure.name)} :
    \E snippet \in {snippetOf(procedure)} :
      includes(identifier, query) \/ includes(snippet, query)

\* The body of the memoised filter.
filterProcedures(catalog, term) ==
  LET query == toLowerCase(trim(term))
  IN IF query = "" THEN catalog
     ELSE SelectSeq(catalog, LAMBDA procedure : matches(procedure, query))

\* The list the component renders.
filteredProcedures == filterProcedures(procedures, searchTerm)

\* The user types into the search box.
handleSearchChange(text) ==
  /\ searchTerm' = text
  /\ UNCHANGED <<selectedSummary, selectedKey, detailsCache, detailsLoading,
                 detailsError, parameterValues, parameterDraftsRef,
                 detailReqs>>
  /\ UNCHANGED executionVars
  /\ UNCHANGED listVars

\* A click on an entry of the list.
handleSelectClick(procedure) ==
  /\ ~isLoadingList                \* the list is not rendered while loading
  /\ procedure \in Range(filteredProcedures)
  /\ handleSelect(procedure, FALSE)
  /\ UNCHANGED searchTerm

handleQuickStart ==
  /\ ~(isLoadingList \/ isExecuting)   \* "Try sample" is disabled otherwise
  /\ handleSelect(QUICK_START_PROCEDURE, TRUE)
  /\ searchTerm' = ""

\* The detail response arrives with a success status: the rest of
\* fetchProcedureDetails, the rest of handleSelect, then the effect.
fetchProcedureDetailsOk(req, parameters) ==
  LET key == makeKey(req.summary.schema, req.summary.name)
      parsed == [schema |-> req.summary.schema, name |-> req.summary.name,
                 parameters |-> parameters]
  IN /\ BagIn(req, detailReqs)
     /\ detailReqs' = detailReqs (-) SetToBag({req})
     /\ detailsCache' = Put(detailsCache, key, parsed)
     /\ detailsLoading' = FALSE
     /\ autoExecuteStep(req.summary, req.autoExecute, parsed)
     /\ parameterValues' =
          DraftRestoreEffect(selectedKey, parameterDraftsRef, detailsCache')
     /\ UNCHANGED <<selectedSummary, selectedKey, detailsError,
                    parameterDraftsRef>>
     /\ UNCHANGED listVars
     /\ UNCHANGED searchTerm

\* Faulty variant: a failure is remembered as details without parameters.
fetchProcedureDetailsFailCached(req, message) ==
  /\ BagIn(req, detailReqs)
  /\ detailReqs' = detailReqs (-) SetToBag({req})
  /\ detailsError' = Some(message)
  /\ detailsLoading' = FALSE
  /\ detailsCache' = Put(detailsCache, KeyOf(req.summary),
                         [schema |-> req.summary.schema, name |-> req.summary.name,
                          parameters |-> <<>>])
  /\ UNCHANGED <<selectedSummary, selectedKey, parameterValues,
                 parameterDraftsRef>>
  /\ UNCHANGED executionVars
  /\ UNCHANGED listVars
  /\ UNCHANGED searchTerm

\* The detail request fails (non-success status, or an exception).
fetchProcedureDetailsFail(req, message) ==
  /\ BagIn(req, detailReqs)
  /\ detailReqs' = detailReqs (-) SetToBag({req})
  /\ detailsError' = Some(message)
  /\ detailsLoading' = FALSE
  /\ UNCHANGED <<selectedSummary, selectedKey, detailsCache, parameterValues,
                 parameterDraftsRef>>
  /\ UNCHANGED executionVars
  /\ UNCHANGED listVars
  /\ UNCHANGED searchTerm

----------------------------------------------------------------------------
selectedDetails ==
  IF selectedKey # None /\ selectedKey[1] \in DOMAIN detailsCache
  THEN Some(detailsCache[selectedKey[1]])
  ELSE None

\* The definition and parameter section is rendered.
DetailsShown ==
  selectedSummary # None /\ selectedDetails # None /\ ~detailsLoading

\* The parameter form is rendered.
FormShown == DetailsShown /\ Len(selectedDetails[1].parameters) > 0

handleParameterChange(name, value) ==
  /\ FormShown
  /\ name \in DOMAIN InitialValues(selectedDetails[1])
  /\ parameterValues' = Put(parameterValues, name, value)
  /\ UNCHANGED <<selectedSummary, selectedKey, detailsCache, detailsLoading,
                 detailsError, parameterDraftsRef, detailReqs>>
  /\ UNCHANGED executionVars
  /\ UNCHANGED listVars
  /\ UNCHANGED searchTerm

handleResetParameters ==
  /\ DetailsShown
  /\ \E k \in DOMAIN parameterValues : parameterValues[k] # ""  \* else disabled
  /\ parameterValues' = InitialValues(selectedDetails[1])
  /\ UNCHANGED <<selectedSummary, selectedKey, detailsCache, detailsLoading,
                 detailsError, parameterDraftsRef, detailReqs>>
  /\ UNCHANGED executionVars
  /\ UNCHANGED listVars
  /\ UNCHANGED searchTerm

\* Faulty variant: only an absent key counts as missing, an empty string passes.
hasMissingRequiredKeyOnly(details, values) ==
  \E i \in 1..Len(details.parameters) :
    /\ details.parameters[i].is_required
    /\ details.parameters[i].short_name \notin DOMAIN values

hasMissingRequired(details, values) ==
  \E i \in 1..Len(details.parameters) :
    /\ details.parameters[i].is_required
    /\ \/ details.parameters[i].short_name \notin DOMAIN values
       \/ values[details.parameters[i].short_name] = ""

\* Faulty variant: a rejected submit leaves the displayed result.
handleExecuteKeepsResult ==
  /\ FormShown
  /\ ~isExecuting
  /\ IF hasMissingRequired(selectedDetails[1], parameterValues)
     THEN /\ executionError' = Some(ValidationMessage)
          /\ UNCHANGED <<executionResult, isExecuting, execReqs>>
     ELSE executeProcedure(selectedSummary[1], parameterValues)
  /\ UNCHANGED <<selectedSummary, selectedKey, detailsCache, detailsLoading,
                 detailsError, parameterValues, parameterDraftsRef,
                 detailReqs>>
  /\ UNCHANGED listVars
  /\ UNCHANGED searchTerm
  /\ InFlightBound

\* The form is submitted.
handleExecute ==
  /\ FormShown
  /\ ~isExecuting                  \* the submit button is disabled while executing
  /\ IF hasMissingRequired(selectedDetails[1], parameterValues)
     THEN /\ executionError' = Some(ValidationMessage)
          /\ executionResult' = None
          /\ UNCHANGED <<isExecuting, execReqs>>
     ELSE executeProcedure(selectedSummary[1], parameterValues)
  /\ UNCHANGED <<selectedSummary, selectedKey, detailsCache, detailsLoading,
                 detailsError, parameterValues, parameterDraftsRef,
                 detailReqs>>
  /\ UNCHANGED listVars
  /\ UNCHANGED searchTerm
  /\ InFlightBound

\* The execute response arrives with a success status.
executeProcedureOk(req) ==
  /\ BagIn(req, execReqs)
  /\ execReqs' = execReqs (-) SetToBag({req})
  /\ executionResult' = Some([schema |-> req.summary.schema,
                              name |-> req.summary.name,
                              parameters_used |-> req.body])
  /\ isExecuting' = FALSE
  /\ UNCHANGED executionError
  /\ UNCHANGED <<selectedSummary, selectedKey, detailsCache, detailsLoading,
                 detailsError, parameterValues, parameterDraftsRef,
                 detailReqs>>
  /\ UNCHANGED listVars
  /\ UNCHANGED searchTerm

executeProcedureFail(req, message) ==
  /\ BagIn(req, execReqs)
  /\ execReqs' = execReqs (-) SetToBag({req})
  /\ executionError' = Some(message)
  /\ isExecuting' = FALSE
  /\ UNCHANGED executionResult
  /\ UNCHANGED <<selectedSummary, selectedKey, detailsCache, detailsLoading,
                 detailsError, parameterValues, parameterDraftsRef,
                 detailReqs>>
  /\ UNCHANGED listVars
  /\ UNCHANGED searchTerm

----------------------------------------------------------------------------
\* History variables.

\* The scenario of a draft round trip: a value typed for one procedure
\* ("typed"), another procedure selected ("away"), the first selected again
\* ("back"), each user action taken with no detail request pending and the
\* selected procedure's details loaded.
TripNext(op, arg) ==
  IF op = "handleParameterChange"
  THEN IF detailReqs = EmptyBag
       THEN Some([stage |-> "typed", key |-> selectedKey[1],
                  name |-> arg[1], value |-> arg[2]])
       ELSE None
  ELSE IF op \in {"handleSelectClick", "handleQuickStart"}
  THEN IF /\ trip # None
          /\ detailReqs = EmptyBag
          /\ selectedDetails # None
       THEN IF trip[1].stage = "typed" /\ arg # trip[1].key
            THEN Some([trip[1] EXCEPT !.stage = "away"])
            ELSE IF trip[1].stage = "away" /\ arg = trip[1].key
            THEN Some([trip[1] EXCEPT !.stage = "back"])
            ELSE None
       ELSE None
  ELSE IF op \in {"handleResetParameters", "fetchProcedureDetailsFail"}
  THEN None
  ELSE trip

\* The identity whose form was reset last and has not been edited since.
ResetNext(op) ==
  IF op = "handleResetParameters" THEN Some([key |-> selectedKey[1]])
  ELSE IF /\ op = "handleParameterChange"
          /\ trip # None
          /\ selectedKey = Some(trip[1].key)
  THEN None
  ELSE trip

Observe(op, arg) ==
  /\ UNCHANGED hookVars
  /\ mode' = mode
  /\ lastFetched' = IF op = "fetchProceduresOk" THEN Some(arg) ELSE lastFetched
  /\ last' = IF mode = "steps"
             THEN LET started == BagCardinality(execReqs') > BagCardinality(execReqs)
                  IN [started |-> started,
                      overOutput |-> started /\ (executionResult # None \/ executionError # None),
                      selectOverOutput |->
                        /\ op \in {"handleSelectClick", "handleQuickStart"}
                        /\ executionResult # None \/ executionError # None
                        /\ detailsError # None,
                      retry |->
                        /\ op \in {"handleSelectClick", "handleQuickStart"}
                        /\ detailsError = Some(DetailGenericMessage(selectedSummary'[1]))
                        /\ selectedKey'[1] \notin DOMAIN detailsCache,
                      rejectOverResult |->
                        /\ op = "handleExecute"
                        /\ execReqs' = execReqs
                        /\ executionResult # None]
             ELSE last
  /\ trip' = IF mode = "trip" THEN TripNext(op, arg)
             ELSE IF mode = "reset" THEN ResetNext(op)
             ELSE trip

----------------------------------------------------------------------------
Next ==
  \/ handleRefresh /\ Observe("handleRefresh", None)
  \/ fetchProceduresOk(ServerList) /\ Observe("fetchProceduresOk", ServerList)
  \/ \E message \in FailureMessages(ListGenericMessage) :
       fetchProceduresFail(message) /\ Observe("fetchProceduresFail", None)
  \/ \E procedure \in Range(procedures) :
       handleSelectClick(procedure) /\ Observe("handleSelectClick", KeyOf(procedure))
  \/ handleQuickStart /\ Observe("handleQuickStart", QUICK_START_KEY)
  \/ \E req \in BagToSet(detailReqs) :
       \E parameters \in ServerParameters(req.summary) :
         fetchProcedureDetailsOk(req, parameters)
           /\ Observe("fetchProcedureDetailsOk", None)
  \/ \E req \in BagToSet(detailReqs) :
       \E message \in FailureMessages(DetailGenericMessage(req.summary)) :
         fetchProcedureDetailsFail(req, message)
           /\ Observe("fetchProcedureDetailsFail", None)
  \/ \E name \in ShortNames :
       \E value \in (IF selectedKey = None THEN {} ELSE TypedValues(selectedKey[1])) :
         handleParameterChange(name, value)
           /\ Observe("handleParameterChange", <<name, value>>)
  \/ handleResetParameters /\ Observe("handleResetParameters", None)
  \/ handleExecute /\ Observe("handleExecute", None)
  \/ \E req \in BagToSet(execReqs) :
       executeProcedureOk(req) /\ Observe("executeProcedureOk", None)
  \/ \E req \in BagToSet(execReqs) :
       \E message \in FailureMessages(ExecuteGenericMessage(req.summary)) :
         executeProcedureFail(req, message) /\ Observe("executeProcedureFail", None)

\* The catalog loader alone, against every list the service may return.
NextCatalog ==
  \/ handleRefresh /\ Observe("handleRefresh", None)
  \/ \E data \in ListResponses :
       fetchProceduresOk(data) /\ Observe("fetchProceduresOk", data)
  \/ \E message \in FailureMessages(ListGenericMessage) :
       fetchProceduresFail(message) /\ Observe("fetchProceduresFail", None)

\* A session that ends with one click on "Try sample" and no user action after
\* it: until the click the user acts freely ("busy"); from the click on
\* ("quiet") only responses arrive, those to the requests for the sample
\* successful and its details without a required parameter.
InitQuickStart == InitState /\ mode = "busy"

LastQuickStart ==
  /\ QUICK_START_KEY \in DOMAIN detailsCache =>
       ~hasRequired(detailsCache[QUICK_START_KEY])
  /\ handleQuickStart
  /\ mode' = "quiet"
  /\ UNCHANGED <<lastFetched, last, trip>>
  /\ UNCHANGED hookVars

QuietResponses ==
  \/ \E req \in BagToSet(detailReqs) :
       \E parameters \in ServerParameters(req.summary) :
         /\ mode = "quiet"
         /\ KeyOf(req.summary) = QUICK_START_KEY =>
              ~hasRequired([parameters |-> parameters])
         /\ fetchProcedureDetailsOk(req, parameters)
         /\ Observe("fetchProcedureDetailsOk", None)
  \/ \E req \in BagToSet(detailReqs) :
       \E message \in FailureMessages(DetailGenericMessage(req.summary)) :
         /\ mode = "quiet"
         /\ KeyOf(req.summary) # QUICK_START_KEY
         /\ fetchProcedureDetailsFail(req, message)
         /\ Observe("fetchProcedureDetailsFail", None)
  \/ \E req \in BagToSet(execReqs) :
       /\ mode = "quiet"
       /\ executeProcedureOk(req)
       /\ Observe("executeProcedureOk", None)
  \/ \E req \in BagToSet(execReqs) :
       \E message \in FailureMessages(ExecuteGenericMessage(req.summary)) :
         /\ mode = "quiet"
         /\ KeyOf(req.summary) # QUICK_START_KEY
         /\ executeProcedureFail(req, message)
         /\ Observe("executeProcedureFail", None)

NextQuickStart ==
  \/ mode = "busy" /\ Next
  \/ mode = "busy" /\ LastQuickStart
  \/ QuietResponses

\* The search box alone: a loaded catalog, and every text the user may type.
SearchChars == {"a", "B", " ", "."}

RECURSIVE StringsUpTo(_, _)
StringsUpTo(chars, n) ==
  IF n = 0 THEN {""}
  ELSE LET shorter == StringsUpTo(chars, n - 1)
       IN shorter \cup {s \o c : s \in shorter, c \in chars}

SearchTexts == StringsUpTo(SearchChars, MaxSearchLength)

\* The texts one keystroke away: a character appended, the last one deleted,
\* or the box cleared.
Keystrokes(term) ==
  {term \o c : c \in IF Len(term) < MaxSearchLength THEN SearchChars ELSE {}}
    \cup {SubSeq(term, 1, Len(term) - 1) : n \in IF term = "" THEN {} ELSE {1}}
    \cup {""}

\* Summaries with and without a definition excerpt.
SearchedSummaries ==
  { [schema |-> "dbo", name |-> "A b", has_parameters |-> TRUE,
     definition_snippet |-> "B a."],
    [schema |-> "a", name |-> "b", has_parameters |-> FALSE] }

\* The explorer with a catalog, nothing selected and no request in flight.
AtRest(catalog) ==
  /\ procedures = catalog
  /\ searchTerm = ""
  /\ isLoadingList = FALSE
  /\ listError = None
  /\ listReqs = 0
  /\ selectedSummary = None
  /\ selectedKey = None
  /\ detailsCache = EmptyMap
  /\ detailsLoading = FALSE
  /\ detailsError = None
  /\ parameterValues = EmptyMap
  /\ parameterDraftsRef = EmptyMap
  /\ isExecuting = FALSE
  /\ executionError = None
  /\ executionResult = None
  /\ detailReqs = EmptyBag
  /\ execReqs = EmptyBag
  /\ lastFetched = None
  /\ last = [started |-> FALSE, overOutput |-> FALSE, selectOverOutput |-> FALSE,
             retry |-> FALSE, rejectOverResult |-> FALSE]
  /\ trip = None

InitSearch ==
  /\ \E fetched \in SeqsUpTo(SearchedSummaries, MaxListLength) :
       AtRest(WithQuickStart(fetched))
  /\ HookIdle
  /\ mode = "search"

NextSearch ==
  \E text \in Keystrokes(searchTerm) :
    handleSearchChange(text) /\ Observe("handleSearchChange", None)

\* Browsing a catalog whose identities contain dots.
DottedSummaries ==
  { [schema |-> "a.b", name |-> "c", has_parameters |-> TRUE],
    [schema |-> "a", name |-> "b.c", has_parameters |-> TRUE] }

InitDotted ==
  /\ \E fetched \in SeqsUpTo(DottedSummaries, MaxListLength) :
       AtRest(WithQuickStart(fetched))
  /\ HookIdle
  /\ mode = "dotted"

NextDotted ==
  \/ \E procedure \in Range(procedures) :
       handleSelectClick(procedure) /\ Observe("handleSelectClick", KeyOf(procedure))
  \/ \E req \in BagToSet(detailReqs) :
       \E parameters \in ServerParameters(req.summary) :
         fetchProcedureDetailsOk(req, parameters)
           /\ Observe("fetchProcedureDetailsOk", None)
  \/ \E req \in BagToSet(detailReqs) :
       \E message \in FailureMessages(DetailGenericMessage(req.summary)) :
         fetchProcedureDetailsFail(req, message)
           /\ Observe("fetchProcedureDetailsFail", None)
  \/ \E name \in ShortNames :
       \E value \in (IF selectedKey = None THEN {} ELSE TypedValues(selectedKey[1])) :
         handleParameterChange(name, value)
           /\ Observe("handleParameterChange", <<name, value>>)

\* Failing requests in full: every shape of a non-success body, and the
\* exceptions fetch and response.json() throw.
FieldValues(text) == {None, Some(""), Some(text)}

BodyWith(detail, error) ==
  FromEntries({<<"detail", detail[1]>> : n \in IF detail = None THEN {} ELSE {1}}
                \cup {<<"error", error[1]>> : n \in IF error = None THEN {} ELSE {1}})

FailureBodies ==
  {BodyWith(detail, error) :
     detail \in FieldValues("Procedure not found"),
     error \in FieldValues("Backend unavailable")}

Thrown ==
  { [name |-> "TypeError", message |-> "Failed to fetch"],
    [name |-> "SyntaxError", message |-> "Unexpected end of JSON input"] }

\* Faulty variant: the message of a caught Error is replaced by the fallback.
CaughtMessageFallback(error, fallback) == fallback

\* error instanceof Error ? error.message : fallback
CaughtMessage(error, fallback) ==
  IF "message" \in DOMAIN error THEN error.message ELSE fallback

ListFallbackMessage == "Failed to load stored procedures."
DetailFallbackMessage == "Failed to load stored procedure details."
ExecuteFallbackMessage == "Failed to execute stored procedure."

\* throw new Error(message) of the status check, as the catch receives it.
StatusError(body, generic) == [name |-> "Error", message |-> ErrorMessage(body, generic)]

InitFailures == InitState /\ mode = "failures"

NextFailures ==
  \/ handleRefresh /\ Observe("handleRefresh", None)
  \/ fetchProceduresOk(ServerList) /\ Observe("fetchProceduresOk", ServerList)
  \/ \E body \in FailureBodies :
       /\ fetchProceduresFail(
            CaughtMessage(StatusError(body, ListGenericMessage), ListFallbackMessage))
       /\ Observe("fetchProceduresFail", None)
  \/ \E error \in Thrown :
       /\ fetchProceduresFail(CaughtMessage(error, ListFallbackMessage))
       /\ Observe("fetchProceduresFail", None)
  \/ \E procedure \in Range(procedures) :
       handleSelectClick(procedure) /\ Observe("handleSelectClick", KeyOf(procedure))
  \/ handleQuickStart /\ Observe("handleQuickStart", QUICK_START_KEY)
  \/ \E req \in BagToSet(detailReqs) :
       \E parameters \in ServerParameters(req.summary) :
         fetchProcedureDetailsOk(req, parameters)
           /\ Observe("fetchProcedureDetailsOk", None)
  \/ \E req \in BagToSet(detailReqs) : \E body \in FailureBodies :
       /\ fetchProcedureDetailsFail(req,
            CaughtMessage(StatusError(body, DetailGenericMessage(req.summary)),
                          DetailFallbackMessage))
       /\ Observe("fetchProcedureDetailsFail", None)
  \/ \E req \in BagToSet(detailReqs) : \E error \in Thrown :
       /\ fetchProcedureDetailsFail(req, CaughtMessage(error, DetailFallbackMessage))
       /\ Observe("fetchProcedureDetailsFail", None)
  \/ \E req \in BagToSet(execReqs) :
       executeProcedureOk(req) /\ Observe("executeProcedureOk", None)
  \/ \E req \in BagToSet(execReqs) : \E body \in FailureBodies :
       /\ executeProcedureFail(req,
            CaughtMessage(StatusError(body, ExecuteGenericMessage(req.summary)),
                          ExecuteFallbackMessage))
       /\ Observe("executeProcedureFail", None)
  \/ \E req \in BagToSet(execReqs) : \E error \in Thrown :
       /\ executeProcedureFail(req, CaughtMessage(error, ExecuteFallbackMessage))
       /\ Observe("executeProcedureFail", None)

\* useWebSocket (use-websocket.ts): the effect, the socket's handlers, the
\* reconnect timer and the cleanup.

\* ws.close() leaves an open or opening socket closing, any other as it is.
Closed(readyState) ==
  IF readyState \in {"CONNECTING", "OPEN"} THEN "CLOSING" ELSE readyState

\* new WebSocket(url), its handlers attached, and wsRef.current = ws.
connectWebSocket ==
  /\ Len(sockets) < MaxSockets
  /\ sockets' = Append(sockets, "CONNECTING")
  /\ wsRef' = Some(Len(sockets) + 1)

\* The effect runs when the component has mounted.
useEffectMount ==
  /\ ~mounted
  /\ sockets = <<>>
  /\ mounted' = TRUE
  /\ connectWebSocket
  /\ UNCHANGED <<isConnected, lastMessage, timers>>
  /\ UNCHANGED explorerVars

\* setIsConnected: a state update of an unmounted component is dropped.
setIsConnected(value) == isConnected' = IF mounted THEN value ELSE isConnected

onopen(i) ==
  /\ sockets[i] = "CONNECTING"
  /\ sockets' = [sockets EXCEPT ![i] = "OPEN"]
  /\ setIsConnected(TRUE)
  /\ UNCHANGED <<lastMessage, wsRef, timers, mounted>>
  /\ UNCHANGED explorerVars

\* The socket has closed, by close() or from the other end.
onclose(i) ==
  /\ sockets[i] # "CLOSED"
  /\ sockets' = [sockets EXCEPT ![i] = "CLOSED"]
  /\ setIsConnected(FALSE)
  /\ timers' = timers + 1          \* setTimeout(connectWebSocket, 3000)
  /\ UNCHANGED <<lastMessage, wsRef, mounted>>
  /\ UNCHANGED explorerVars

\* Frames the server sends: JSON texts, and one that is not JSON.
Frames ==
  { [text |-> "{\"type\":\"result\"}", json |-> Some([type |-> "result"])],
    [text |-> "{\"type\":\"error\"}", json |-> Some([type |-> "error"])],
    [text |-> "<html>", json |-> None] }

\* JSON.parse(event.data) and setLastMessage(data); a parse error is logged.
onmessage(i, event) ==
  /\ sockets[i] = "OPEN"
  /\ lastMessage' = IF event.json # None /\ mounted THEN event.json ELSE lastMessage
  /\ UNCHANGED <<isConnected, wsRef, sockets, timers, mounted>>
  /\ UNCHANGED explorerVars

\* A timer set by onclose fires.
reconnectTimer ==
  /\ timers > 0
  /\ timers' = timers - 1
  /\ connectWebSocket
  /\ UNCHANGED <<isConnected, lastMessage, mounted>>
  /\ UNCHANGED explorerVars

\* The effect's cleanup, run when the component unmounts.
cleanup ==
  /\ mounted
  /\ mounted' = FALSE
  /\ sockets' = IF wsRef # None
                THEN [sockets EXCEPT ![wsRef[1]] = Closed(sockets[wsRef[1]])]
                ELSE sockets
  /\ UNCHANGED <<isConnected, lastMessage, wsRef, timers>>
  /\ UNCHANGED explorerVars

InitHook == AtRest(<<>>) /\ HookIdle /\ mode = "hook"

NextHook ==
  \/ useEffectMount
  \/ \E i \in DOMAIN sockets : onopen(i)
  \/ \E i \in DOMAIN sockets : onclose(i)
  \/ \E i \in DOMAIN sockets : \E event \in Frames : onmessage(i, event)
  \/ reconnectTimer
  \/ cleanup

Spec == Init /\ [][Next]_vars
SpecSteps == InitSteps /\ [][Next]_vars
SpecTrip == InitTrip /\ [][Next]_vars
SpecReset == InitReset /\ [][Next]_vars
SpecCatalog == Init /\ [][NextCatalog]_vars
SpecSearch == InitSearch /\ [][NextSearch]_vars
SpecDotted == InitDotted /\ [][NextDotted]_vars
SpecFailures == InitFailures /\ [][NextFailures]_vars
SpecHook == InitHook /\ [][NextHook]_vars
\* Every request receives its response.
SpecQuickStart ==
  InitQuickStart /\ [][NextQuickStart]_vars /\ WF_vars(QuietResponses)

----------------------------------------------------------------------------
\* Properties.

ValuesOf(map) == {map[k] : k \in DOMAIN map}
IsSentinel(summary) == summary.schema = "sys" /\ summary.name = "sp_help"

\* C1. Draft persistence round trip: a value V typed into parameter P of A,
\* then B # A selected, then A selected again, each user action taken after
\* the pending detail loads have completed successfully: the active draft
\* shown for A maps P to V.
DraftRoundTrip ==
  (trip # None /\ trip[1].stage = "back") =>
    /\ selectedKey = Some(trip[1].key)
    /\ trip[1].name \in DOMAIN parameterValues
    /\ parameterValues[trip[1].name] = trip[1].value

DraftRoundTripReached ==
  trip # None /\ trip[1].stage = "back" /\ trip[1].value # ""

\* C2. Draft isolation: what was typed while A was selected never shows in
\* the draft stored for another identity B, nor in the active draft while
\* B is selected (the user's text carries the key it was typed under); and
\* the draft stored for B changes in no step taken while B is not selected.
TypedTextStaysUnderItsKey ==
  /\ \A k \in DOMAIN parameterDraftsRef :
       ValuesOf(parameterDraftsRef[k]) \subseteq TypedValues(k)
  /\ selectedKey # None => ValuesOf(parameterValues) \subseteq TypedValues(selectedKey[1])
  /\ selectedKey = None => parameterValues = EmptyMap

StoredDraftsOfOthersKept ==
  \A k \in DOMAIN parameterDraftsRef :
    selectedKey # Some(k) =>
      (k \in DOMAIN parameterDraftsRef' /\ parameterDraftsRef'[k] = parameterDraftsRef[k])

DraftUntouchedByUnrelated ==
  [][ ( /\ selectedDetails # None
        /\ selectedKey' = selectedKey
        /\ \/ BagCardinality(detailReqs') < BagCardinality(detailReqs)
           \/ listReqs' # listReqs
           \/ execReqs' # execReqs )
      => \A k \in DOMAIN parameterValues :
           parameterValues[k] # "" =>
             (k \in DOMAIN parameterValues' /\ parameterValues'[k] = parameterValues[k])
    ]_vars

\* C4. Required-parameter gate: a form submit while a required parameter of
\* the selected procedure has no value, or an empty one, issues no execute
\* request and shows the validation message.
RequiredUnfilled ==
  \E i \in 1..Len(selectedDetails[1].parameters) :
    LET param == selectedDetails[1].parameters[i]
    IN param.is_required /\ (\A k \in DOMAIN parameterValues :
                               k = param.short_name => parameterValues[k] = "")

RequiredParameterGate ==
  [][ (handleExecute /\ RequiredUnfilled)
      => (execReqs' = execReqs /\ executionError' = Some(ValidationMessage)) ]_vars

RequiredParameterGateReached ==
  /\ executionError = Some(ValidationMessage)
  /\ execReqs = EmptyBag
  /\ selectedDetails # None
  /\ RequiredUnfilled

\* C5. Optional-value omission: the parameters of a request body are exactly
\* the entries of the map passed to executeProcedure (the active draft on a
\* form submit, the empty map on an auto-execute) whose value is not the
\* empty string, keys and values unchanged.
OptionalValueOmission ==
  [][ \A req \in BagToSet(execReqs') :
        (execReqs' = execReqs (+) SetToBag({req})) =>
          LET passed == IF handleExecute THEN parameterValues ELSE EmptyMap
          IN /\ DOMAIN req.body = {k \in DOMAIN passed : passed[k] # ""}
             /\ \A k \in DOMAIN req.body : req.body[k] = passed[k]
    ]_vars

OptionalValueOmissionReached ==
  \E req \in BagToSet(execReqs) :
    /\ selectedKey = Some(KeyOf(req.summary))
    /\ \E k \in DOMAIN parameterValues : parameterValues[k] = "" /\ k \notin DOMAIN req.body
    /\ \E k \in DOMAIN req.body :
         k \in DOMAIN parameterValues /\ parameterValues[k] = req.body[k] /\ req.body[k] # ""

\* C6. Catalog sentinel uniqueness: after a successful load the catalog has
\* exactly one sys.sp_help entry, it is the first, and the rest are the
\* server's other entries in the server's order.
RECURSIVE NonSentinel(_)
NonSentinel(list) ==
  IF list = <<>> THEN <<>>
  ELSE IF IsSentinel(Head(list)) THEN NonSentinel(Tail(list))
  ELSE <<Head(list)>> \o NonSentinel(Tail(list))

CatalogSentinelUnique ==
  IF lastFetched = None THEN procedures = <<>>
  ELSE /\ Len(procedures) >= 1
       /\ IsSentinel(procedures[1])
       /\ Cardinality({i \in 1..Len(procedures) : IsSentinel(procedures[i])}) = 1
       /\ Tail(procedures) = NonSentinel(lastFetched[1])

CatalogSentinelUniqueReached ==
  /\ lastFetched # None
  /\ ~isLoadingList
  /\ Cardinality({i \in 1..Len(lastFetched[1]) : IsSentinel(lastFetched[1][i])}) >= 2
  /\ \E i \in 1..Len(lastFetched[1]) : ~IsSentinel(lastFetched[1][i])

\* C7. Detail cache hit: once a detail request for X has been issued (it is
\* pending, or its answer is in the cache), no select issues another one for
\* X, and every later resolution yields the value the cache holds.
DetailRequestsFor(key, reqs) ==
  CopiesIn(key, BagOfAll(LAMBDA req : KeyOf(req.summary), reqs))

DetailCacheHit ==
  [][ \A key \in {QUICK_START_KEY} \cup {KeyOf(procedures[i]) : i \in 1..Len(procedures)} :
        /\ (key \in DOMAIN detailsCache \/ DetailRequestsFor(key, detailReqs) > 0)
             => DetailRequestsFor(key, detailReqs') <= DetailRequestsFor(key, detailReqs)
        /\ key \in DOMAIN detailsCache => detailsCache'[key] = detailsCache[key]
    ]_vars

\* C8. New execution clears the stale output: right after a step that issued
\* an execute request, no result and no error is shown and the executing
\* flag is set.
NewExecutionClearsOutput ==
  last.started => (executionResult = None /\ executionError = None /\ isExecuting)

NewExecutionClearsOutputReached ==
  /\ last.started
  /\ last.overOutput
  /\ executionResult = None
  /\ executionError = None

\* C9. A shown execution result or execution error belongs to the selected
\* identity: the result names it, the error is the validation message or the
\* failure message of an execution of it.
OutputBelongsToSelection ==
  /\ executionResult # None =>
       selectedKey = Some(makeKey(executionResult[1].schema, executionResult[1].name))
  /\ executionError # None =>
       /\ selectedSummary # None
       /\ executionError[1] \in {ValidationMessage, ExecuteGenericMessage(selectedSummary[1])}

\* C10. At most one execute request is in flight.
SingleExecutionInFlight == BagCardinality(execReqs) <= 1

\* C11. At most one of the execution result and the execution error is
\* retained: executionResult and executionError are never both non-null.
ResultErrorExclusive == ~(executionResult # None /\ executionError # None)

\* C12. Quick-start auto-execute: after the click on "Try sample", with no
\* further user action and the sample's detail and execute requests
\* successful (details without a required parameter), a state is eventually
\* reached that shows a result, no error, and is not executing.
QuickStartAutoExecute ==
  (mode = "quiet") ~>
    (executionResult # None /\ executionError = None /\ ~isExecuting)

\* C13. Auto-execute gate: when a select with autoExecute resolves its
\* details (from the cache at the click, or from the detail response), an
\* execute request with an empty parameter map is issued if no parameter is
\* required; if one is required, no execute request is issued and no
\* execution error is set.
AutoExecuteOutcome(summary, details) ==
  IF hasRequired(details)
  THEN execReqs' = execReqs /\ executionError' \in {None, executionError}
  ELSE execReqs' = execReqs (+) SetToBag({[summary |-> summary, body |-> EmptyMap]})

AutoExecuteGate ==
  [][ /\ \A req \in BagToSet(detailReqs) :
           \A parameters \in ServerParameters(req.summary) :
             (req.autoExecute /\ fetchProcedureDetailsOk(req, parameters))
               => AutoExecuteOutcome(req.summary, [parameters |-> parameters])
      /\ (handleQuickStart /\ QUICK_START_KEY \in DOMAIN detailsCache)
           => AutoExecuteOutcome(QUICK_START_PROCEDURE, detailsCache[QUICK_START_KEY])
    ]_vars

AutoExecuteGateReached ==
  /\ \E req \in BagToSet(execReqs) :
       KeyOf(req.summary) = QUICK_START_KEY /\ req.body = EmptyMap
  /\ QUICK_START_KEY \in DOMAIN detailsCache
  /\ ~hasRequired(detailsCache[QUICK_START_KEY])
  /\ detailReqs = EmptyBag

\* C14. Selection clears the displayed state: right after the synchronous
\* part of a select, before any detail response, the selection is the
\* selected summary's identity and no execution result, execution error or
\* detail error is shown.
SelectClears(summary) ==
  /\ selectedSummary' = Some(summary)
  /\ selectedKey' = Some(makeKey(summary.schema, summary.name))
  /\ executionResult' = None
  /\ executionError' = None
  /\ detailsError' = None

SelectionClearsDisplay ==
  [][ /\ \A procedure \in Range(procedures) :
           handleSelectClick(procedure) => SelectClears(procedure)
      /\ handleQuickStart => SelectClears(QUICK_START_PROCEDURE)
    ]_vars

SelectionClearsDisplayReached ==
  /\ last.selectOverOutput
  /\ executionResult = None
  /\ executionError = None
  /\ detailsError = None

\* C15. Detail failure on select: after the detail request of a select of X
\* has failed, X is still selected, the failure message is shown as the
\* detail error, the failure has seeded no draft (the active draft and the
\* draft store are as before, and without a user's edit the active draft has
\* no key), and the step issued no execute request, with or without
\* autoExecute.
DetailFailureOutcome(req, message) ==
  /\ selectedKey' = Some(KeyOf(req.summary))
  /\ detailsError' = Some(message)
  /\ parameterValues' = parameterValues
  /\ parameterDraftsRef' = parameterDraftsRef
  /\ KeyOf(req.summary) \notin DOMAIN detailsCache => DOMAIN parameterValues' = {}
  /\ execReqs' = execReqs

DetailFailureOnStandingSelect ==
  [][ \A req \in BagToSet(detailReqs) :
        \A message \in FailureMessages(DetailGenericMessage(req.summary)) :
          (selectedKey = Some(KeyOf(req.summary))
             /\ fetchProcedureDetailsFail(req, message))
            => DetailFailureOutcome(req, message)
    ]_vars

\* C16. A failed detail request for X adds no entry to the detail cache and
\* changes none; so a select of X after the failure, X still being absent
\* from the cache, issues a new detail request for X.
DetailFailureNotCached ==
  [][ /\ \A req \in BagToSet(detailReqs) :
           \A message \in FailureMessages(DetailGenericMessage(req.summary)) :
             fetchProcedureDetailsFail(req, message) => detailsCache' = detailsCache
      /\ \A procedure \in Range(procedures) \cup {QUICK_START_PROCEDURE} :
           ( /\ detailsError = Some(DetailGenericMessage(procedure))
             /\ KeyOf(procedure) \notin DOMAIN detailsCache
             /\ \/ handleSelectClick(procedure)
                \/ procedure = QUICK_START_PROCEDURE /\ handleQuickStart )
           => DetailRequestsFor(KeyOf(procedure), detailReqs')
                = DetailRequestsFor(KeyOf(procedure), detailReqs) + 1
    ]_vars

DetailFailureNotCachedReached ==
  /\ last.retry
  /\ DetailRequestsFor(selectedKey[1], detailReqs) > 0
  /\ selectedKey[1] \notin DOMAIN detailsCache
  /\ detailsCache # EmptyMap

\* C17. A form submit rejected for a missing required parameter leaves the
\* selection, the detail cache, the draft store and the active draft as they
\* were. As stated, it also leaves the previously displayed execution result.
ValidationFailureKeepsAll ==
  [][ (handleExecute /\ RequiredUnfilled)
      => UNCHANGED <<selectedSummary, selectedKey, detailsCache,
                     parameterDraftsRef, parameterValues, executionResult>>
    ]_vars

\* C17, amended. The rejected submit changes the execution error and the
\* execution result only: the validation message is shown and the result is
\* cleared; selection, detail cache, draft store, active draft, the requests
\* and the other displays are as before.
ValidationFailureFrame ==
  [][ (handleExecute /\ RequiredUnfilled)
      => /\ executionError' = Some(ValidationMessage)
         /\ executionResult' = None
         /\ UNCHANGED <<selectedSummary, selectedKey, detailsCache,
                        parameterDraftsRef, parameterValues, detailsLoading,
                        detailsError, isExecuting, execReqs, detailReqs>>
         /\ UNCHANGED listVars
    ]_vars

ValidationFailureFrameReached ==
  /\ last.rejectOverResult
  /\ executionError = Some(ValidationMessage)
  /\ executionResult = None
  /\ parameterDraftsRef # EmptyMap

\* C18. A catalog load, from its start to its success or failure, changes
\* neither the detail cache, the draft store, the active draft, the
\* selection, nor the execution result and error; its success replaces the
\* catalog by the sentinel followed by the server's other entries.
CatalogLoadFrame ==
  [][ /\ listReqs' # listReqs
           => UNCHANGED <<detailsCache, parameterDraftsRef, parameterValues,
                          selectedSummary, selectedKey, executionResult,
                          executionError>>
      /\ fetchProceduresOk(ServerList)
           => procedures' = <<QUICK_START_PROCEDURE>> \o NonSentinel(ServerList)
      /\ (listReqs' < listReqs /\ ~fetchProceduresOk(ServerList))
           => procedures' = procedures
    ]_vars

CatalogLoadFrameReached ==
  /\ isLoadingList
  /\ lastFetched # None
  /\ selectedKey # None
  /\ detailsCache # EmptyMap
  /\ parameterDraftsRef # EmptyMap
  /\ parameterValues # EmptyMap
  /\ executionResult # None

\* C19. Detail cache permanence: an entry of the detail cache is never
\* removed and never replaced by a different value.
DetailCachePermanent ==
  [][ \A k \in DOMAIN detailsCache :
        k \in DOMAIN detailsCache' /\ detailsCache'[k] = detailsCache[k] ]_vars

\* C20. Draft seeding and restore: after a select, and after a detail
\* response has arrived, the active draft of the selected X is the draft
\* stored under X if there is one; else, if X's details are cached, the map
\* from every declared short name to the empty string; else the empty map.
DraftFor(key, drafts, cache) ==
  IF key \in DOMAIN drafts THEN drafts[key]
  ELSE IF key \in DOMAIN cache
  THEN LET declared == cache[key].parameters
       IN [n \in {declared[i].short_name : i \in DOMAIN declared} |-> ""]
  ELSE EmptyMap

DraftSeedingAndRestore ==
  [][ LET restored ==
            parameterValues' =
              DraftFor(selectedKey'[1], parameterDraftsRef', detailsCache')
      IN /\ \A procedure \in Range(procedures) :
              handleSelectClick(procedure) => restored
         /\ handleQuickStart => restored
         /\ \A req \in BagToSet(detailReqs) :
              \A parameters \in ServerParameters(req.summary) :
                (selectedKey # None /\ fetchProcedureDetailsOk(req, parameters))
                  => restored
    ]_vars

DraftSeedingAndRestoreReached ==
  /\ selectedKey # None
  /\ selectedKey[1] \notin DOMAIN parameterDraftsRef
  /\ parameterDraftsRef # EmptyMap
  /\ selectedKey[1] \in DOMAIN detailsCache
  /\ parameterValues # EmptyMap
  /\ parameterValues = DraftFor(selectedKey[1], parameterDraftsRef, detailsCache)

\* C21. Reset discards prior values: from a reset of X's form until the next
\* edit of it, the draft observed for X has only empty values: the active
\* draft while X is selected, the stored draft while another identity is.
AllEmpty(map) == \A k \in DOMAIN map : map[k] = ""

Occurs(part, s) ==
  \E skipped \in 0..(Len(s) - Len(part)) :
    SubSeq(s, skipped + 1, skipped + Len(part)) = part

Excerpt(procedure) ==
  IF "definition_snippet" \in DOMAIN procedure THEN procedure.definition_snippet ELSE ""

EntriesWith(catalog, query) ==
  SelectSeq(catalog, LAMBDA procedure :
    \E identifier \in {toLowerCase(makeKey(procedure.schema, procedure.name))} :
      \E excerpt \in {toLowerCase(Excerpt(procedure))} :
        Occurs(query, identifier) \/ Occurs(query, excerpt))

FilterByTypedQuery ==
  filteredProcedures = EntriesWith(procedures, toLowerCase(searchTerm))

\* C22, amended: the query is the typed text with leading and trailing white
\* space removed, then lowercased; a text that is empty after that returns the
\* full catalog; typing changes neither the catalog, the detail cache nor the
\* draft store.
FilterByTrimmedQuery ==
  [][(\E text \in SearchTexts : handleSearchChange(text)) =>
       /\ filterProcedures(procedures', searchTerm') =
            EntriesWith(procedures, toLowerCase(trim(searchTerm')))
       /\ trim(searchTerm') = "" =>
            filterProcedures(procedures', searchTerm') = procedures
       /\ UNCHANGED <<procedures, detailsCache, parameterDraftsRef>>]_vars

FilterByTrimmedQueryReached ==
  /\ searchTerm # trim(searchTerm)
  /\ trim(searchTerm) # toLowerCase(trim(searchTerm))
  /\ Len(filteredProcedures) > 0
  /\ Len(filteredProcedures) < Len(procedures)

\* C23: Identity keys are injective. Two identities have the same key only if
\* their schemas are equal and their names are equal, so an identity of the
\* catalog whose key is in the detail cache finds its own details there.
SameIdentity(p, q) == p.schema = q.schema /\ p.name = q.name

MakeKeyInjective ==
  \A p \in Range(procedures) :
    KeyOf(p) \in DOMAIN detailsCache => SameIdentity(detailsCache[KeyOf(p)], p)

\* C24: Outgoing-draft persistence ordering. A select made while an identity
\* is selected leaves that identity's active draft in the draft store under
\* its own key, every other stored draft as it was, in the very step that
\* issues the detail request for the new identity; and the failure of a detail
\* request leaves the draft store as it is.
OutgoingDraftPersisted ==
  [][/\ selectedKey = None
        \/ parameterDraftsRef' = Put(parameterDraftsRef, selectedKey[1], parameterValues)
        \/ ~ \/ \E procedure \in Range(procedures) : handleSelectClick(procedure)
             \/ handleQuickStart
     /\ parameterDraftsRef' = parameterDraftsRef
        \/ ~ \E req \in BagToSet(detailReqs) :
               \E message \in FailureMessages(DetailGenericMessage(req.summary)) :
                 fetchProcedureDetailsFail(req, message)]_vars

\* The detail request of the new selection has failed and the draft typed for
\* the identity left behind is in the store.
OutgoingDraftPersistedReached ==
  /\ selectedKey # None
  /\ detailsError # None
  /\ selectedKey[1] \notin DOMAIN detailsCache
  /\ \E key \in DOMAIN parameterDraftsRef :
       /\ key # selectedKey[1]
       /\ \E name \in DOMAIN parameterDraftsRef[key] : parameterDraftsRef[key][name] # ""

\* C25: Draft key-superset invariant. Whenever the selected identity's detail
\* is in the detail cache, the active draft, and the draft stored for that
\* identity if there is one, has a key for every parameter short-name the
\* detail declares.
DeclaredNames(details) ==
  {details.parameters[i].short_name : i \in 1..Len(details.parameters)}

DraftKeySuperset ==
  selectedKey # None /\ selectedKey[1] \in DOMAIN detailsCache =>
    /\ DeclaredNames(detailsCache[selectedKey[1]]) \subseteq DOMAIN parameterValues
    /\ selectedKey[1] \in DOMAIN parameterDraftsRef =>
         DeclaredNames(detailsCache[selectedKey[1]])
           \subseteq DOMAIN parameterDraftsRef[selectedKey[1]]

\* C26: A stale detail failure is not surfaced for another selection. A
\* displayed detail error is the one of a detail request for the selected
\* identity: the generic message names the identity it was requested for.
DetailErrorOfSelection ==
  detailsError # None =>
    /\ selectedSummary # None
    /\ detailsError = Some(DetailGenericMessage(selectedSummary[1]))

\* C27: Failure message extraction. On a non-success response the surfaced
\* message is the body's non-empty 'detail', else its non-empty 'error', else
\* the operation's generic message (naming schema.name for detail and execute);
\* on an exception it is the exception's message; the failure sets the error
\* state of its own operation and no other, and resets the operation's busy flag.
NonEmpty(body, field) == field \in DOMAIN body /\ body[field] # ""

Extracted(body, message, generic, named) ==
  IF NonEmpty(body, "detail") THEN message = body["detail"]
  ELSE IF NonEmpty(body, "error") THEN message = body["error"]
  ELSE message = generic /\ Occurs(named, generic)

FailureMessageExtraction ==
  [][/\ \A body \in FailureBodies :
          fetchProceduresFail(
            CaughtMessage(StatusError(body, ListGenericMessage), ListFallbackMessage))
          => /\ listError' # None
             /\ Extracted(body, listError'[1],
                          "Unable to load stored procedures from the server.", "")
             /\ ~isLoadingList'
             /\ UNCHANGED <<detailsError, executionError>>
     /\ \A error \in Thrown :
          fetchProceduresFail(CaughtMessage(error, ListFallbackMessage))
          => /\ listError' = Some(error.message)
             /\ ~isLoadingList'
             /\ UNCHANGED <<detailsError, executionError>>
     /\ \A req \in BagToSet(detailReqs) :
          /\ \A body \in FailureBodies :
               fetchProcedureDetailsFail(req,
                 CaughtMessage(StatusError(body, DetailGenericMessage(req.summary)),
                               DetailFallbackMessage))
               => /\ detailsError' # None
                  /\ Extracted(body, detailsError'[1],
                               DetailGenericMessage(req.summary), KeyOf(req.summary))
                  /\ ~detailsLoading'
                  /\ UNCHANGED <<listError, executionError>>
          /\ \A error \in Thrown :
               fetchProcedureDetailsFail(req, CaughtMessage(error, DetailFallbackMessage))
               => /\ detailsError' = Some(error.message)
                  /\ ~detailsLoading'
                  /\ UNCHANGED <<listError, executionError>>
     /\ \A req \in BagToSet(execReqs) :
          /\ \A body \in FailureBodies :
               executeProcedureFail(req,
                 CaughtMessage(StatusError(body, ExecuteGenericMessage(req.summary)),
                               ExecuteFallbackMessage))
               => /\ executionError' # None
                  /\ Extracted(body, executionError'[1],
                               ExecuteGenericMessage(req.summary), KeyOf(req.summary))
                  /\ ~isExecuting'
                  /\ UNCHANGED <<listError, detailsError>>
          /\ \A error \in Thrown :
               executeProcedureFail(req, CaughtMessage(error, ExecuteFallbackMessage))
               => /\ executionError' = Some(error.message)
                  /\ ~isExecuting'
                  /\ UNCHANGED <<listError, detailsError>>]_vars

\* The three operations have failed, one by a body without a usable field, one by an
\* exception and one by a body whose 'detail' is empty and whose 'error' is not.
FailureMessageExtractionReached ==
  /\ listError = Some(ListGenericMessage)
  /\ detailsError = Some("Unexpected end of JSON input")
  /\ executionError = Some("Backend unavailable")
  /\ ~isLoadingList /\ ~detailsLoading /\ ~isExecuting

\* C28: An execute request is only ever issued for the identity that is
\* selected at the moment the request is issued.
ExecuteOnlyForSelection ==
  [][\A req \in BagToSet(execReqs') :
       CopiesIn(req, execReqs') > CopiesIn(req, execReqs) =>
         selectedKey' = Some(KeyOf(req.summary))]_vars

\* C29: Busy flags track in-flight requests. The executing flag is true
\* exactly when an execute request is in flight, the detail-loading flag
\* exactly when a detail request is in flight, and the list-loading flag
\* exactly when a catalog request is in flight.
BusyFlagsTrackRequests ==
  /\ isExecuting <=> execReqs # EmptyBag
  /\ detailsLoading <=> detailReqs # EmptyBag
  /\ isLoadingList <=> listReqs > 0

\* C30: WebSocket hook teardown. Once the cleanup of useWebSocket has run, the
\* socket the hook owned is closing or closed and no WebSocket is created any
\* more.
TeardownIsFinal ==
  [][~mounted /\ sockets # <<>> =>
       /\ sockets[wsRef[1]] \in {"CLOSING", "CLOSED"}
       /\ Len(sockets') = Len(sockets)]_vars
============================================================================
